---- MODULE Spec2Model ----
(***************************************************************************)
(* The ingestion loop of meowview: startup provisioning, the websocket     *)
(* read loop, record sanitising, subject resolution and the Cassandra      *)
(* mutations.  The repository holds two versions of the program:           *)
(*   "main" : src/main.go            (table keyed by rkey, no validation)  *)
(*   "api"  : src/unnamed/part_000, lines 1-473 (table keyed by a fresh    *)
(*            uuid, emotion denylist, subject resolver, query router)      *)
(* `variant` says which of them is running.  (part_000, lines 476-640, is  *)
(* an earlier main() that stores the undecoded record as a blob; it has    *)
(* no emotion and no subject column and is not among the variants.)        *)
(*                                                                         *)
(* A Go string is a sequence of bytes; each byte is a one-token string.    *)
(* A nullable value (a Go string pointer, a column) is <<>> for nil/null    *)
(* and <<s>> for a value s.                                                *)
(***************************************************************************)
EXTENDS Integers, Sequences, FiniteSets, TLC

VARIABLES
    variant,    \* which version of the program runs
    pc,         \* where main() stands
    attempts,   \* createKeyspace: failed attempts so far
    indexes,    \* CREATE INDEX statements done
    store,      \* the table meows: primary key -> row
    nextId,     \* the next fresh uuid
    conn,       \* the websocket connection: "closed", "open" or "broken"
    last        \* the pass of the read loop in hand, or the one just finished:
                \* branch taken ("pending" until it ends), frame, resolver
                \* answer, statements sent to the store

vars == <<variant, pc, attempts, indexes, store, nextId, conn, last>>

(* ------------------------------ bounds --------------------------------- *)

\* uuid.New() never repeats; the model has this many fresh ids to hand out.
MaxIds == 2

(* -------------------------- program constants -------------------------- *)

maxRetries == 20

EmotionLimit == 50

Variants == {"main", "api"}

\* number of CREATE INDEX statements of each version
NumIndexes(v) == IF v = "main" THEN 2 ELSE 4

(* ------------------------------ strings -------------------------------- *)

None == <<>>

Some(s) == <<s>>

\* the two bytes of one non-ASCII character (U+00E9 in UTF-8)
LeadByte == "xC3"

ContByte == "xA9"

\* number of characters (runes) of a valid UTF-8 byte string
RuneCount(s) == Cardinality({i \in 1..Len(s) : s[i] # ContByte})

\* the first n characters (runes) of a valid UTF-8 byte string
RECURSIVE RunePrefixLen(_, _, _)
RunePrefixLen(s, n, i) ==
    IF i > Len(s) THEN Len(s)
    ELSE IF s[i] # ContByte /\ n = 0 THEN i - 1
    ELSE RunePrefixLen(s, IF s[i] # ContByte THEN n - 1 ELSE n, i + 1)

FirstRunes(s, n) == SubSeq(s, 1, RunePrefixLen(s, n, 1))

\* strings.Contains(s, sub)
Contains(s, sub) ==
    \/ Len(sub) = 0
    \/ \E i \in 1..(Len(s) - Len(sub) + 1) :
          s[i] = sub[1] /\ SubSeq(s, i, i + Len(sub) - 1) = sub

\* strings.HasPrefix(s, p)
HasPrefix(s, p) == Len(s) >= Len(p) /\ SubSeq(s, 1, Len(p)) = p

UpperLetters == <<"A","B","C","D","E","F","G","H","I","J","K","L","M",
                  "N","O","P","Q","R","S","T","U","V","W","X","Y","Z">>

LowerLetters == <<"a","b","c","d","e","f","g","h","i","j","k","l","m",
                  "n","o","p","q","r","s","t","u","v","w","x","y","z">>

LowerByte(c) ==
    IF \E k \in 1..26 : UpperLetters[k] = c
    THEN LowerLetters[CHOOSE k \in 1..26 : UpperLetters[k] = c]
    ELSE c

\* strings.ToLower(s)
ToLower(s) == [i \in 1..Len(s) |-> LowerByte(s[i])]

\* strings.SplitN(s, sep, n) for a one-byte separator and n >= 1
RECURSIVE SplitN(_, _, _)
SplitN(s, sep, n) ==
    IF n = 1 \/ ~(\E i \in 1..Len(s) : s[i] = sep) THEN <<s>>
    ELSE LET i == CHOOSE j \in 1..Len(s) :
                     s[j] = sep /\ \A k \in 1..(j - 1) : s[k] # sep
         IN  <<SubSeq(s, 1, i - 1)>> \o SplitN(SubSeq(s, i + 1, Len(s)), sep, n - 1)

(* ------------------------------- inputs -------------------------------- *)

\* "Happy!!!"
Happy == <<"H","a","p","p","y","!","!","!">>

\* 51 ASCII bytes: "b", 49 times "a", "z"
LongAscii == [i \in 1..51 |-> IF i = 1 THEN "b" ELSE IF i = 51 THEN "z" ELSE "a"]

\* 51 two-byte characters, 102 bytes
LongMulti == [i \in 1..102 |-> IF i % 2 = 1 THEN LeadByte ELSE ContByte]

\* "drop table meows"
DropTable == <<"d","r","o","p"," ","t","a","b","l","e"," ","m","e","o","w","s">>

\* "DROP"
UpperDrop == <<"D","R","O","P">>

\* "a;b"
Semicolon == <<"a",";","b">>

\* 50 times "a", then "drop": the denylisted part lies beyond the limit
TailDrop == [i \in 1..50 |-> "a"] \o <<"d","r","o","p">>

\* "drop", then 47 times "a": 51 bytes, the denylisted part within the limit
HeadDrop == <<"d","r","o","p">> \o [i \in 1..47 |-> "a"]

\* 26 two-byte characters, ";", 24 times "a": 51 characters, the semicolon
\* the 27th character and the 53rd byte
MultiSemicolon ==
    [i \in 1..52 |-> IF i % 2 = 1 THEN LeadByte ELSE ContByte]
    \o <<";">> \o [i \in 1..24 |-> "a"]

Emotions ==
    {Happy, LongAscii, LongMulti, DropTable, UpperDrop, Semicolon, TailDrop,
     HeadDrop, MultiSemicolon}

\* "did:plc:x"
PlcDid == <<"d","i","d",":","p","l","c",":","x">>

\* "did:web:example.com"
WebDid == <<"d","i","d",":","w","e","b",":",
            "e","x","a","m","p","l","e",".","c","o","m">>

\* "at://x", a subject that is no DID of either method
OtherSubject == <<"a","t",":","/","/","x">>

\* "did:web:h:80": four colon-delimited parts, the last one a port number
WebDidPort == <<"d","i","d",":","w","e","b",":","h",":","8","0">>

\* "did:web:h:u": four colon-delimited parts, the last one no port number
WebDidPath == <<"d","i","d",":","w","e","b",":","h",":","u">>

Subjects == {PlcDid, WebDid, OtherSubject, WebDidPort, WebDidPath}

Rkeys == {"abcdefghijklm", "3lq4slogsz52p"}

\* envelope-level fields (did, time_us, cid) of the frames the feed delivers
Headers == {[did |-> "did:plc:abc", time_us |-> 2, cid |-> "cid1"],
            [did |-> "did:plc:xyz", time_us |-> 1, cid |-> "cid2"]}

Operations == {"create", "update", "delete", "like"}

\* commit.record of a frame: missing, not a JSON object of the record's shape,
\* or a decodable MeowRecord
RecordAbsent == [raw |-> "absent"]

RecordMalformed == [raw |-> "malformed"]

DecodedRecords ==
    {[raw |-> "object", emotion |-> Some(e), subject |-> None] : e \in Emotions}
    \cup {[raw |-> "object", emotion |-> Some(Happy), subject |-> Some(s)] : s \in Subjects}
    \cup {[raw |-> "object", emotion |-> None, subject |-> None]}

Payloads == {RecordAbsent, RecordMalformed} \cup DecodedRecords

\* what one conn.ReadMessage() returns
NoFrame == [read |-> "none"]

ReadFailure == [read |-> "error"]

Undecodable == [read |-> "garbage"]

\* the collection named in the subscription URL (main.go 126)
WantedCollection == "moe.kasey.meow"

\* a commit event of the subscribed collection
Envelope(h, op, k, p) ==
    [read |-> "envelope", did |-> h.did, time_us |-> h.time_us, cid |-> h.cid,
     kind |-> "commit", collection |-> WantedCollection,
     operation |-> op, rkey |-> k, record |-> p]

BaseHeader == [did |-> "did:plc:abc", time_us |-> 2, cid |-> "cid1"]

BaseRkey == "abcdefghijklm"

BaseRecord == [raw |-> "object", emotion |-> Some(Happy), subject |-> None]

\* frames of another kind or another collection that carry a commit all the
\* same: the program decodes kind and collection and the feed decides what
\* it sends
ForeignEnvelopes ==
    {[Envelope(BaseHeader, "create", BaseRkey, BaseRecord) EXCEPT !.kind = "identity"],
     [Envelope(BaseHeader, "create", BaseRkey, BaseRecord)
         EXCEPT !.collection = "app.bsky.feed.like"],
     [Envelope(BaseHeader, "delete", BaseRkey, BaseRecord)
         EXCEPT !.collection = "app.bsky.feed.like"]}

\* every header, operation and key with a plain record or none; a create
\* and a delete with every payload under one header and key; and a commit
\* whose operation is missing, which decodes to the empty string
Envelopes ==
    {Envelope(h, op, k, p) :
        h \in Headers, op \in Operations, k \in Rkeys, p \in {BaseRecord, RecordAbsent}}
    \cup {Envelope(BaseHeader, op, BaseRkey, p) : op \in {"create", "delete"}, p \in Payloads}
    \cup {Envelope(BaseHeader, "", BaseRkey, p) : p \in {BaseRecord, RecordAbsent}}
    \cup ForeignEnvelopes

Frames == {ReadFailure, Undecodable} \cup Envelopes

\* the envelopes by the branch of the loop they can reach
UndecodedFrames == {e \in Envelopes : e.record.raw # "object"}

DecodedFrames == {e \in Envelopes : e.record.raw = "object"}

UpsertFrames == {e \in DecodedFrames : e.operation \in {"create", "update"}}

DeleteFrames == {e \in DecodedFrames : e.operation = "delete"}

OtherFrames == {e \in DecodedFrames : e.operation \notin {"create", "update", "delete"}}

\* status codes of an answer: success, a redirect (which the did:web client
\* takes as the final answer, part_000 318-320), not found
Statuses == {200, 302, 404}

\* what the directory / the did:web host answers to one GET
NoCall == [err |-> "nocall"]

Responses ==
    {[err |-> "timeout"]}
    \cup {[err |-> "none", status |-> st, body |-> b] :
            st \in Statuses, b \in {"undecodable", "noid", "document"}}

(* ------------------------- record validation --------------------------- *)

\* the bytes 0x27 (single quote), 0x22 (double quote) and 0x60 (backtick)
Apostrophe == "x27"

DoubleQuote == "x22"

Backtick == "x60"

\* main.go 157-161, part_000 202-206: len() and [:50] count bytes
Truncate(e) == IF Len(e) > EmotionLimit THEN SubSeq(e, 1, EmotionLimit) ELSE e

\* part_000 209-216: both tests read the truncated emotion as it is
Denylisted(e) ==
    \/ Contains(e, <<";">>) \/ Contains(e, <<Apostrophe>>)
    \/ Contains(e, <<DoubleQuote>>) \/ Contains(e, <<Backtick>>)
    \/ Contains(e, <<"c","r","e","a","t","e">>)
    \/ Contains(e, <<"i","n","s","e","r","t">>)
    \/ Contains(e, <<"u","p","d","a","t","e">>)
    \/ Contains(e, <<"d","e","l","e","t","e">>)
    \/ Contains(e, <<"d","r","o","p">>)

\* The emotion block of the loop: [drop |-> the message is skipped,
\* emotion |-> the value bound to the INSERT].
\* part_000 201 assigns the lower-cased emotion, 207 overwrites it with the
\* truncated original, so it is the original case that is tested and stored.
SanitizeEmotion(v, emotion) ==
    IF emotion = None THEN [drop |-> FALSE, emotion |-> None]
    ELSE IF v = "main"
    THEN [drop |-> FALSE, emotion |-> Some(Truncate(emotion[1]))]
    ELSE LET lowered   == ToLower(emotion[1])
             truncated == Truncate(emotion[1])
             final     == truncated
         IN  [drop |-> Denylisted(final), emotion |-> Some(final)]

\* SanitizeEmotion of every record the feed delivers, evaluated once
SanitizedRecords ==
    [v \in Variants |-> [p \in DecodedRecords |-> SanitizeEmotion(v, p.emotion)]]

(* -------------------------- identity resolver -------------------------- *)

PlcPrefix == <<"d","i","d",":","p","l","c",":">>

WebPrefix == <<"d","i","d",":","w","e","b",":">>

\* part_000 297-303, 336-342: the id of the decoded document; the status is not
\* read; a document without "id" decodes to the empty string
DecodeDocument(did, resp) ==
    IF resp.body = "undecodable" THEN None
    ELSE IF resp.body = "document" THEN Some(did)
    ELSE Some(<<>>)

validatePLCDID(did, resp) ==
    IF resp.err # "none" THEN None ELSE DecodeDocument(did, resp)

Digits == {"0", "1", "2", "3", "4", "5", "6", "7", "8", "9"}

\* part_000 325-329: http.NewRequestWithContext parses the URL and fails on a
\* host whose text after the last colon is not a port number
HostPortValid(domain) ==
    \A i \in 1..Len(domain) :
        (domain[i] = ":" /\ \A j \in (i + 1)..Len(domain) : domain[j] # ":")
            => \A j \in (i + 1)..Len(domain) : domain[j] \in Digits

Https == <<"h","t","t","p","s",":","/","/">>

\* "/.well-known/did.json"
WellKnown == <<"/",".","w","e","l","l","-","k","n","o","w","n",
               "/","d","i","d",".","j","s","o","n">>

\* "plc.directory/"
PlcDirectory == <<"p","l","c",".","d","i","r","e","c","t","o","r","y","/">>

\* part_000 308-314: SplitN with n = 3 cuts at the first two colons only, so
\* everything after "did:web:" is the domain
validateWebDID(did, resp) ==
    LET parts == SplitN(did, ":", 3)
    IN  IF Len(parts) # 3 THEN None
        ELSE IF ~HostPortValid(parts[3]) THEN None
        ELSE IF resp.err # "none" THEN None
        ELSE DecodeDocument(did, resp)

validateSubject(subject, resp) ==
    IF HasPrefix(subject, PlcPrefix) THEN validatePLCDID(subject, resp)
    ELSE IF HasPrefix(subject, WebPrefix) THEN validateWebDID(subject, resp)
    ELSE None

\* does validateSubject reach client.Do for this subject
IssuesRequest(subject) ==
    \/ HasPrefix(subject, PlcPrefix)
    \/ /\ HasPrefix(subject, WebPrefix)
       /\ Len(SplitN(subject, ":", 3)) = 3
       /\ HostPortValid(SplitN(subject, ":", 3)[3])

\* part_000 282, 313-314: the URL of the GET that validateSubject sends
RequestURL(subject) ==
    IF HasPrefix(subject, PlcPrefix) THEN Https \o PlcDirectory \o subject
    ELSE Https \o SplitN(subject, ":", 3)[3] \o WellKnown

\* the subject bound to the INSERT: main.go 180 binds record.Subject itself,
\* part_000 221-227 the result of validateSubject
ResolveSubject(v, subject, resp) ==
    IF v = "main" THEN subject
    ELSE IF subject = None THEN None
    ELSE validateSubject(subject[1], resp)

(* --------------------------------- store ------------------------------- *)

\* The table meows is a function from primary key to row.  main.go 95-103:
\* the primary key is rkey.  part_000 113-122: the primary key is id.

RowsOf(st, rkey) == {k \in DOMAIN st : st[k].rkey = rkey}

\* INSERT INTO meows ...: Cassandra writes the row at its primary key,
\* replacing the row that is there.
PrimaryKey(v, id, rkey) == IF v = "main" THEN rkey ELSE id

Insert(v, st, id, row) ==
    LET pk == PrimaryKey(v, id, row.rkey)
    IN  [k \in DOMAIN st \cup {pk} |-> IF k = pk THEN row ELSE st[k]]

\* DELETE FROM meows WHERE rkey = ?  With rkey the primary key the row is
\* removed (no row: nothing happens, no error).  In part_000 rkey is an indexed
\* regular column, Cassandra rejects a DELETE that does not name the primary
\* key and Exec returns the error.
DeleteAccepted(v) == v = "main"

Delete(v, st, rkey) ==
    IF DeleteAccepted(v)
    THEN [k \in DOMAIN st \ {rkey} |-> st[k]]
    ELSE st

(* ------------------------ one pass of the read loop -------------------- *)

\* a switch that sends a failed statement a second time
SwitchRetry(v, st, id, op, row, ok) ==
    IF op \in {"create", "update"}
    THEN [path |-> "inserted", store |-> Insert(v, st, id, row),
          execs |-> IF ok THEN 1 ELSE 2]
    ELSE IF op = "delete"
    THEN [path |-> IF DeleteAccepted(v) THEN "deleted" ELSE "delete_error",
          store |-> Delete(v, st, row.rkey),
          execs |-> IF ok /\ DeleteAccepted(v) THEN 1 ELSE 2]
    ELSE [path |-> "unknown_operation", store |-> st, execs |-> 0]

\* a switch whose default case writes the row
SwitchDefaultWrites(v, st, id, op, row, ok) ==
    IF op \in {"create", "update"}
    THEN IF ok
         THEN [path |-> "inserted", store |-> Insert(v, st, id, row), execs |-> 1]
         ELSE [path |-> "insert_error", store |-> st, execs |-> 1]
    ELSE IF op = "delete"
    THEN IF ok /\ DeleteAccepted(v)
         THEN [path |-> "deleted", store |-> Delete(v, st, row.rkey), execs |-> 1]
         ELSE [path |-> "delete_error", store |-> st, execs |-> 1]
    ELSE [path |-> "unknown_operation", store |-> Insert(v, st, id, row),
          execs |-> 1]

\* main.go 170-194, part_000 235-260: the switch on commit.operation.  ok says
\* whether the store carries out the statement; execs counts the calls of
\* session.Query(...).Exec().  A statement that fails is logged, nothing more.
Switch(v, st, id, op, row, ok) ==
    IF op \in {"create", "update"}
    THEN IF ok
         THEN [path |-> "inserted", store |-> Insert(v, st, id, row), execs |-> 1]
         ELSE [path |-> "insert_error", store |-> st, execs |-> 1]
    ELSE IF op = "delete"
    THEN IF ok /\ DeleteAccepted(v)
         THEN [path |-> "deleted", store |-> Delete(v, st, row.rkey), execs |-> 1]
         ELSE [path |-> "delete_error", store |-> st, execs |-> 1]
    ELSE [path |-> "unknown_operation", store |-> st, execs |-> 0]

\* main.go 136-194, part_000 178-260, for the frame f that ReadMessage
\* returns, the answer resp of the resolver (when it is asked) and ok, whether
\* the store carries out the statement sent to it.  id is the uuid.New() of
\* this pass.  The result is the branch taken, the table afterwards and the
\* number of statements sent to the store.
Iterate(v, st, id, f, resp, ok) ==
    IF f.read = "error" THEN [path |-> "read_error", store |-> st, execs |-> 0]
    ELSE IF f.read = "garbage"
    THEN [path |-> "unmarshal_error", store |-> st, execs |-> 0]
    ELSE IF f.record.raw # "object"
    THEN [path |-> "record_error", store |-> st, execs |-> 0]
    ELSE LET san == SanitizedRecords[v][f.record]
         IN  IF san.drop THEN [path |-> "rejected", store |-> st, execs |-> 0]
             ELSE LET subject == ResolveSubject(v, f.record.subject, resp)
                      row == [rkey |-> f.rkey, time_us |-> f.time_us,
                              cid |-> f.cid, did |-> f.did,
                              emotion |-> san.emotion, subject |-> subject]
                  IN  Switch(v, st, id, f.operation, row, ok)

\* the answers the resolver can give in a pass over frame f
ResponsesFor(v, f) ==
    IF /\ v = "api"
       /\ f.read = "envelope"
       /\ f.record.raw = "object"
       /\ ~SanitizedRecords[v][f.record].drop
       /\ f.record.subject # None
       /\ IssuesRequest(f.record.subject[1])
    THEN Responses
    ELSE {NoCall}

(* ------------------------------- startup ------------------------------- *)

Init ==
    /\ variant \in Variants
    /\ pc = "systemSession"
    /\ attempts = 0
    /\ indexes = 0
    /\ store = <<>>
    /\ nextId = 1
    /\ conn = "closed"
    /\ last = [path |-> "none", f |-> NoFrame, resp |-> NoCall, execs |-> 0]

\* one statement of main() that ends in log.Fatal when it fails
FatalStep(from, to, ok) ==
    /\ pc = from
    /\ pc' = IF ok THEN to ELSE "exited"
    /\ UNCHANGED <<variant, attempts, indexes, store, nextId, conn, last>>

\* main.go 70-73
CreateSystemSession ==
    /\ pc = "systemSession"
    /\ \E ok \in BOOLEAN : FatalStep("systemSession", "createKeyspace", ok)

\* main.go 38-50: one turn of the retry loop of createKeyspace; attempts is
\* its counter i, which is gone once the function has returned nil
KeyspaceAttempt ==
    /\ pc = "createKeyspace"
    /\ attempts < maxRetries
    /\ \E ok \in BOOLEAN :
         /\ pc' = IF ok THEN "createKeyspaceAgain" ELSE "createKeyspace"
         /\ attempts' = IF ok THEN 0 ELSE attempts + 1
    /\ UNCHANGED <<variant, indexes, store, nextId, conn, last>>

\* a createKeyspace that gives up after its first failed attempt
KeyspaceExhaustedEarly ==
    /\ pc = "createKeyspace"
    /\ attempts >= 1
    /\ pc' = "exited"
    /\ UNCHANGED <<variant, attempts, indexes, store, nextId, conn, last>>

\* main.go 51, 75-77: the loop ran out, createKeyspace returns the error
KeyspaceExhausted ==
    /\ pc = "createKeyspace"
    /\ attempts >= maxRetries
    /\ pc' = "exited"
    /\ UNCHANGED <<variant, attempts, indexes, store, nextId, conn, last>>

\* main.go 79-84
CreateKeyspaceAgain ==
    /\ pc = "createKeyspaceAgain"
    /\ \E ok \in BOOLEAN : FatalStep("createKeyspaceAgain", "session", ok)

\* main.go 87-91
CreateSession ==
    /\ pc = "session"
    /\ \E ok \in BOOLEAN : FatalStep("session", "createTable", ok)

\* main.go 95-106
CreateTable ==
    /\ pc = "createTable"
    /\ \E ok \in BOOLEAN : FatalStep("createTable", "createIndex", ok)

\* main.go 109-122, part_000 128-157: the CREATE INDEX statements in turn
CreateIndex ==
    /\ pc = "createIndex"
    /\ indexes < NumIndexes(variant)
    /\ \E ok \in BOOLEAN :
         /\ pc' = IF ~ok THEN "exited"
                  ELSE IF indexes + 1 = NumIndexes(variant) THEN "dial"
                  ELSE "createIndex"
         /\ indexes' = IF ok THEN indexes + 1 ELSE indexes
    /\ UNCHANGED <<variant, attempts, store, nextId, conn, last>>

\* main.go 125-133: the one Dial of the program; conn is the connection it
\* returns
Dial ==
    /\ pc = "dial"
    /\ \E ok \in BOOLEAN :
         /\ pc' = IF ok THEN "read" ELSE "exited"
         /\ conn' = IF ok THEN "open" ELSE conn
    /\ UNCHANGED <<variant, attempts, indexes, store, nextId, last>>

(* ------------------------------ read loop ------------------------------ *)

\* does the pass over frame f reach client.Do in validateSubject
NeedsCall(v, f) == ResponsesFor(v, f) # {NoCall}

\* a read that does not wait for the pass in hand: the next frame is taken
\* while the frame before it still awaits the resolver or the store
ReadMessageAhead ==
    /\ pc \in {"read", "resolve", "switch"}
    /\ conn = "open"
    /\ \E f \in Frames \ {ReadFailure} :
         /\ (variant = "api" /\ f \in UpsertFrames) => nextId <= MaxIds
         /\ last' = [path |-> "pending", f |-> f, resp |-> NoCall, execs |-> 0]
    /\ pc' = "decode"
    /\ UNCHANGED <<variant, attempts, indexes, store, nextId, conn>>

\* main.go 136, part_000 178: conn.ReadMessage() returns the next frame or an
\* error.  A broken connection returns nothing but errors; a read that fails
\* may leave the connection broken.  The frame is in hand until the pass ends.
ReadMessage ==
    /\ pc = "read"
    /\ \E f \in Frames :
         /\ f.read # "error" => conn = "open"
         /\ (variant = "api" /\ f \in UpsertFrames) => nextId <= MaxIds
         /\ \E c \in (IF f.read = "error" THEN {conn, "broken"} ELSE {conn}) :
               conn' = c
         /\ last' = [path |-> "pending", f |-> f, resp |-> NoCall, execs |-> 0]
    /\ pc' = "decode"
    /\ UNCHANGED <<variant, attempts, indexes, store, nextId>>

\* the rest of the pass over the frame in hand, taking one of the branches in
\* paths; control returns to ReadMessage
Pass(ok, paths) ==
    /\ last.path = "pending"
    /\ LET r == Iterate(variant, store, nextId, last.f, last.resp, ok)
       IN  /\ r.path \in paths
           /\ store' = r.store
           /\ nextId' = IF variant = "api" /\ r.path = "inserted"
                        THEN nextId + 1 ELSE nextId
           /\ last' = [last EXCEPT !.path = r.path, !.execs = r.execs]
    /\ pc' = "read"
    /\ UNCHANGED <<variant, attempts, indexes, conn>>

\* a read error that ends the process instead of the pass
ReadErrorFatal ==
    /\ pc = "decode"
    /\ last.f = ReadFailure
    /\ pc' = "exited"
    /\ last' = [last EXCEPT !.path = "read_error"]
    /\ UNCHANGED <<variant, attempts, indexes, store, nextId, conn>>

\* a read error after which the connection is given up and dialled again
ReadErrorRedial ==
    /\ pc = "decode"
    /\ last.f = ReadFailure
    /\ pc' = "dial"
    /\ conn' = "closed"
    /\ last' = [last EXCEPT !.path = "read_error"]
    /\ UNCHANGED <<variant, attempts, indexes, store, nextId>>

\* main.go 138-141
ReadError ==
    /\ pc = "decode"
    /\ Pass(TRUE, {"read_error"})

\* main.go 144-147
UnmarshalError ==
    /\ pc = "decode"
    /\ Pass(TRUE, {"unmarshal_error"})

\* main.go 150-153
RecordParseError ==
    /\ pc = "decode"
    /\ Pass(TRUE, {"record_error"})

\* part_000 209-216
EmotionRejected ==
    /\ pc = "decode"
    /\ Pass(TRUE, {"rejected"})

\* part_000 221-224, 264-275, 290, 325: validateSubject is called with a
\* subject of one of the two methods and sends its GET
CallResolver ==
    /\ pc = "decode"
    /\ last.path = "pending"
    /\ NeedsCall(variant, last.f)
    /\ pc' = "resolve"
    /\ UNCHANGED <<variant, attempts, indexes, store, nextId, conn, last>>

\* part_000 290-303, 325-342: client.Do returns the answer of the server
ResolverAnswer ==
    /\ pc = "resolve"
    /\ \E resp \in Responses \ {[err |-> "timeout"]} :
          last' = [last EXCEPT !.resp = resp]
    /\ pc' = "switch"
    /\ UNCHANGED <<variant, attempts, indexes, store, nextId, conn>>

\* a call without deadline: only the answer of the server ends it
ResolverNoDeadline ==
    /\ pc = "resolve"
    /\ FALSE
    /\ UNCHANGED vars

\* part_000 266, 281, 316: no answer within the five seconds of the context
\* and of the client made for this call; client.Do returns the error
ResolverTimeout ==
    /\ pc = "resolve"
    /\ last' = [last EXCEPT !.resp = [err |-> "timeout"]]
    /\ pc' = "switch"
    /\ UNCHANGED <<variant, attempts, indexes, store, nextId, conn>>

\* the switch is reached straight from the decoding, or after the resolver
AtSwitch ==
    \/ pc = "switch"
    \/ pc = "decode" /\ ~NeedsCall(variant, last.f)

\* main.go 171-184, part_000 236-250
Upsert ==
    /\ AtSwitch
    /\ \E ok \in BOOLEAN : Pass(ok, {"inserted", "insert_error"})

\* main.go 186-190, part_000 252-256
Remove ==
    /\ AtSwitch
    /\ \E ok \in BOOLEAN : Pass(ok, {"deleted", "delete_error"})

\* main.go 192-193
UnknownOperation ==
    /\ AtSwitch
    /\ Pass(TRUE, {"unknown_operation"})

Next ==
    \/ CreateSystemSession
    \/ KeyspaceAttempt
    \/ KeyspaceExhausted
    \/ CreateKeyspaceAgain
    \/ CreateSession
    \/ CreateTable
    \/ CreateIndex
    \/ Dial
    \/ ReadMessage
    \/ ReadError
    \/ UnmarshalError
    \/ RecordParseError
    \/ EmotionRejected
    \/ CallResolver
    \/ ResolverAnswer
    \/ ResolverTimeout
    \/ Upsert
    \/ Remove
    \/ UnknownOperation

Spec == Init /\ [][Next]_vars

\* the program's own steps are taken; its timers fire
FairSpec ==
    /\ Spec
    /\ WF_vars(ResolverTimeout)
    /\ WF_vars(Upsert)
    /\ WF_vars(Remove)
    /\ WF_vars(UnknownOperation)

(* ------------------------------- claims -------------------------------- *)

\* a pass has ended and it was over a create/update (a delete) whose envelope
\* decoded
LastIsUpsert ==
    /\ pc = "read"
    /\ last.f.read = "envelope"
    /\ last.f.operation \in {"create", "update"}

LastIsDelete ==
    /\ pc = "read"
    /\ last.f.read = "envelope"
    /\ last.f.operation = "delete"

\* the row the last pass wrote, when it took the branch "inserted"
Written == store[PrimaryKey(variant, nextId - 1, last.f.rkey)]

\* C1: once a create/update message is persisted, processing the same message
\* again leaves the table as it is, with exactly one row for the rkey of the
\* message; no rkey ever has two rows.
C1_IdempotentUpsert ==
    /\ \A k \in Rkeys : Cardinality(RowsOf(store, k)) <= 1
    /\ last.path = "inserted" =>
          LET again == Iterate(variant, store, nextId, last.f, last.resp, TRUE)
          IN  /\ again.path = "inserted"
              /\ again.store = store
              /\ Cardinality(RowsOf(again.store, last.f.rkey)) = 1

\* C2: after a create/update is persisted there is a single row for its rkey
\* and it carries time_us, cid, did, emotion and subject of that message, the
\* last to arrive, whatever time_us the earlier messages had.
C2_LastWriteWins ==
    last.path = "inserted" =>
        LET alone == Iterate(variant, <<>>, nextId - 1, last.f, last.resp, TRUE).store
        IN  /\ Cardinality(RowsOf(store, last.f.rkey)) = 1
            /\ \A k \in RowsOf(store, last.f.rkey) :
                  /\ store[k].time_us = last.f.time_us
                  /\ store[k].cid = last.f.cid
                  /\ store[k].did = last.f.did
                  /\ \A a \in DOMAIN alone :
                        /\ store[k].emotion = alone[a].emotion
                        /\ store[k].subject = alone[a].subject

\* the denylist as the specification states it, on the truncated emotion:
\* the four characters, and the five words in any letter case
SpecDenylisted(e) ==
    LET t == Truncate(e)
    IN  \/ \E c \in {";", Apostrophe, DoubleQuote, Backtick} : Contains(t, <<c>>)
        \/ \E w \in {<<"c","r","e","a","t","e">>, <<"i","n","s","e","r","t">>,
                     <<"u","p","d","a","t","e">>, <<"d","e","l","e","t","e">>,
                     <<"d","r","o","p">>} : Contains(ToLower(t), w)

\* C3: a create/update whose emotion holds a denylisted character, or a
\* denylisted word in any letter case, is dropped: the pass takes the
\* rejection branch, which issues no write.
C3_DenylistDrop ==
    ( /\ LastIsUpsert
      /\ last.f.record.raw = "object"
      /\ last.f.record.emotion # None
      /\ SpecDenylisted(last.f.record.emotion[1]) )
    => last.path = "rejected"

\* a lookup that succeeded: an answer with status 200 and a document with an id
Resolved(resp) == resp.err = "none" /\ resp.status = 200 /\ resp.body = "document"

\* a lookup that failed: no answer in time, or an answer with status 404
Failed(resp) == resp.err = "timeout" \/ (resp.err = "none" /\ resp.status = 404)

\* C4: the subject of a row just written is null, or the identifier a
\* successful resolver call returned for the subject of the message; it is
\* never the unresolved string of the payload.
C4_NoRawSubject ==
    last.path = "inserted" =>
        \/ Written.subject = None
        \/ /\ Resolved(last.resp)
           /\ Written.subject = last.f.record.subject

\* C5: a create/update whose subject starts with did:plc: and whose lookup
\* failed (timeout, 404) is persisted when the store accepts the write, with
\* the fields of the message and a null subject.
C5_ResolverFailureNull ==
    ( /\ LastIsUpsert
      /\ last.f.record.raw = "object"
      /\ last.f.record.subject # None
      /\ HasPrefix(last.f.record.subject[1], PlcPrefix)
      /\ Failed(last.resp)
      /\ last.path # "insert_error" )
    => /\ last.path = "inserted"
       /\ Written.rkey = last.f.rkey
       /\ Written.time_us = last.f.time_us
       /\ Written.cid = last.f.cid
       /\ Written.did = last.f.did
       /\ Written.emotion = last.f.record.emotion
       /\ Written.subject = None

\* C6: after a pass over a delete for rkey K in which the store did not fail,
\* no row with rkey K is in the table.
C6_DeleteThenQuery ==
    (LastIsDelete /\ last.path # "delete_error") => RowsOf(store, last.f.rkey) = {}

\* C7: a pass over a delete whose record is absent or does not parse still
\* reaches the DELETE statement for the rkey of the envelope.
C7_DeleteWithoutPayload ==
    (LastIsDelete /\ last.f.record.raw # "object") =>
        last.path \in {"deleted", "delete_error"}

\* C8: a persisted create/update whose emotion is longer than 50 characters is
\* stored with exactly the first 50 characters of that emotion, and no stored
\* emotion is longer than 50 characters.
C8_Truncation ==
    /\ \A k \in DOMAIN store :
          store[k].emotion # None => RuneCount(store[k].emotion[1]) <= EmotionLimit
    /\ ( /\ last.path = "inserted"
         /\ last.f.record.emotion # None
         /\ RuneCount(last.f.record.emotion[1]) > EmotionLimit )
       => Written.emotion = Some(FirstRunes(last.f.record.emotion[1], EmotionLimit))

\* the create of the specification's scenario: did:plc:abc, abcdefghijklm,
\* emotion "Happy!!!", subject did:web:example.com
ScenarioFrame ==
    Envelope(BaseHeader, "create", BaseRkey,
             [raw |-> "object", emotion |-> Some(Happy), subject |-> Some(WebDid)])

\* C9: the persisted emotion is the lower-cased form of the accepted emotion;
\* the scenario create, with the resolver returning did:web:example.com, is
\* stored as rkey abcdefghijklm, did did:plc:abc, emotion "happy!!!", subject
\* did:web:example.com.
C9_LowerCasing ==
    /\ (last.path = "inserted" /\ last.f.record.emotion # None) =>
          Written.emotion = Some(ToLower(Truncate(last.f.record.emotion[1])))
    /\ ( /\ last.path = "inserted"
         /\ last.f = ScenarioFrame
         /\ last.resp # NoCall => Resolved(last.resp) )
       => /\ Written.rkey = "abcdefghijklm"
          /\ Written.did = "did:plc:abc"
          /\ Written.emotion = Some(<<"h","a","p","p","y","!","!","!">>)
          /\ Written.subject = Some(WebDid)

StartupPcs ==
    {"systemSession", "createKeyspace", "createKeyspaceAgain", "session",
     "createTable", "createIndex", "dial"}

LoopPcs == {"read", "decode", "resolve", "switch"}

C11_ReconnectOnDisconnect ==
    [][ (pc = "decode" /\ last.f = ReadFailure /\ conn = "broken")
            => pc' = "dial" ]_vars

\* C12: the pass over a failed read decodes nothing, asks no resolver, leaves
\* the table and the connection as they are and returns to the read; the step
\* after it is a ReadMessage on that same connection.
C12_ReadErrorStep ==
    [][ /\ (pc = "decode" /\ last.f = ReadFailure) =>
              /\ pc' = "read"
              /\ last' = [path |-> "read_error", f |-> ReadFailure,
                           resp |-> NoCall, execs |-> 0]
              /\ store' = store
              /\ nextId' = nextId
              /\ conn' = conn
        /\ (pc = "read" /\ last.path = "read_error") =>
              /\ pc' = "decode"
              /\ conn' \in {conn, "broken"}
              /\ store' = store ]_vars

\* C12 witness: rows are stored, a read has failed on a connection that is
\* still usable, and the loop stands at the read again.
C12_Witness ==
    pc = "read" /\ last.path = "read_error" /\ conn = "open" /\ store # <<>>

\* C13: a pass sends at most one statement to the store, and none unless it
\* is over a create, update or delete; when the statement fails the table is
\* as it was before the message, the message is given up and the next step is
\* the read of the next frame.
C13_NoRetry ==
    [][ (last.path = "pending" /\ last'.path # "pending") =>
            /\ last'.execs <= 1
            /\ last'.execs = 1 =>
                  last.f.operation \in {"create", "update", "delete"}
            /\ last'.path \in {"insert_error", "delete_error"} =>
                  /\ last'.execs = 1
                  /\ store' = store
                  /\ pc' = "read" ]_vars

\* C13 witness: an INSERT for a key not in the table has failed, the table
\* still holds the rows it held, and the loop stands at the read.
C13_Witness ==
    /\ pc = "read"
    /\ last.path = "insert_error"
    /\ last.execs = 1
    /\ store # <<>>
    /\ last.f.rkey \notin {store[k].rkey : k \in DOMAIN store}

\* C14: one message at a time.  A frame is taken in hand only at the read,
\* when the pass over the frame before it has ended; at the read no frame is
\* pending; and the table changes only in the step that ends the pass over
\* the frame in hand, so the writes follow the order of arrival.
C14_Sequential ==
    [][ /\ pc = "read" => last.path # "pending"
        /\ (last'.path = "pending" /\ (last.path # "pending" \/ last'.f # last.f))
              => (pc = "read" /\ last.path # "pending" /\ pc' = "decode")
        /\ (last.path = "pending" /\ pc' # "read") =>
              (last'.path = "pending" /\ last'.f = last.f)
        /\ store' # store =>
              /\ last.path = "pending"
              /\ last'.f = last.f
              /\ last'.path \in {"inserted", "deleted"}
              /\ pc' = "read" ]_vars

\* C14 witness: rows of earlier frames are stored and a frame is in hand at
\* the switch, its resolver call answered, its statement not yet sent.
C14_Witness ==
    pc = "switch" /\ last.path = "pending" /\ last.resp # NoCall /\ store # <<>>

\* C15: every resolver call returns, also when the server never answers: the
\* pass that waits for an answer reaches the switch and then the read of the
\* next frame; a call that ran into its deadline returns none; and the
\* deadline can fire in every call, whatever the calls before it met.
C15_BoundedResolverStall ==
    /\ (pc = "resolve") ~> (pc = "read")
    /\ [](pc = "resolve" => ENABLED ResolverTimeout)
    /\ []((pc = "switch" /\ last.resp = [err |-> "timeout"]) =>
              validateSubject(last.f.record.subject[1], last.resp) = None)

\* C15 witness: a call has run into its deadline after an earlier call had
\* been answered and its row stored; the pass is at the switch.
C15_Witness ==
    /\ pc = "switch"
    /\ last.resp = [err |-> "timeout"]
    /\ \E k \in DOMAIN store : store[k].subject # None

\* C16: the pass over a decoded envelope whose operation is none of create,
\* update and delete (the empty string among them) sends no statement, leaves
\* the table as it is and returns to the read.
C16_UnknownOperationNoOp ==
    [][ ( /\ last.path = "pending"
          /\ last'.path # "pending"
          /\ last.f.read = "envelope"
          /\ last.f.operation \notin {"create", "update", "delete"} )
        => /\ store' = store
           /\ last'.execs = 0
           /\ last'.path \in {"unknown_operation", "record_error", "rejected"}
           /\ pc' = "read" ]_vars

\* C16 witness: with rows in the table, a commit with the empty operation
\* and a record that parses has gone through the default case.
C16_Witness ==
    /\ pc = "read"
    /\ last.path = "unknown_operation"
    /\ last.f.operation = ""
    /\ store # <<>>

\* C17: a pass over a frame whose kind is not "commit", or whose collection is
\* not the subscribed one, sends no statement to the store and changes no row.
C17_EventFilter ==
    ( /\ pc = "read"
      /\ last.f.read = "envelope"
      /\ (last.f.kind # "commit" \/ last.f.collection # WantedCollection) )
    => /\ last.execs = 0
       /\ last.path \notin {"inserted", "deleted"}

\* the denylist of the specification on a text: the four characters, and the
\* five words in any letter case
SpecDenylistedText(t) ==
    \/ \E c \in {";", Apostrophe, DoubleQuote, Backtick} : Contains(t, <<c>>)
    \/ \E w \in {<<"c","r","e","a","t","e">>, <<"i","n","s","e","r","t">>,
                 <<"u","p","d","a","t","e">>, <<"d","e","l","e","t","e">>,
                 <<"d","r","o","p">>} : Contains(ToLower(t), w)

\* C18: truncate, then reject.  A message whose emotion is longer than 50
\* characters is dropped exactly when the first 50 characters hold a
\* denylisted character or word; denylisted text beyond the 50th character
\* drops nothing, and what is persisted is the first 50 characters.
C18_TruncateThenReject ==
    ( /\ pc = "read"
      /\ last.f.read = "envelope"
      /\ last.f.record.raw = "object"
      /\ last.f.record.emotion # None
      /\ RuneCount(last.f.record.emotion[1]) > EmotionLimit )
    => LET head == FirstRunes(last.f.record.emotion[1], EmotionLimit)
       IN  /\ (last.path = "rejected") <=> SpecDenylistedText(head)
           /\ last.path = "inserted" => Written.emotion = Some(head)

\* all the colon-delimited parts of a subject
ColonParts(s) == SplitN(s, ":", Len(s) + 1)

\* C19: a pass that reaches the subject of a did:web: identifier which has
\* not exactly three colon-delimited parts sends no request and persists a
\* null subject; with exactly three parts a request that is sent goes to
\* https://<third part>/.well-known/did.json.
C19_WebDidSplit ==
    ( /\ pc = "read"
      /\ last.path \in {"inserted", "insert_error", "deleted", "delete_error",
                        "unknown_operation"}
      /\ last.f.record.subject # None
      /\ HasPrefix(last.f.record.subject[1], WebPrefix) )
    => LET sub   == last.f.record.subject[1]
           parts == ColonParts(sub)
       IN  /\ Len(parts) # 3 =>
                 /\ last.resp = NoCall
                 /\ last.path = "inserted" => Written.subject = None
           /\ (Len(parts) = 3 /\ last.resp # NoCall) =>
                 RequestURL(sub) = Https \o parts[3] \o WellKnown

\* C20: whenever the server has answered, the resolver returns none unless the
\* status is 2xx and the body is a document with an id, also when the body of
\* a non-2xx answer decodes; and it never returns the empty string.
C20_NonSuccessIsNone ==
    ( /\ pc \in {"switch", "read"}
      /\ last.resp # NoCall
      /\ last.resp.err = "none" )
    => LET got == validateSubject(last.f.record.subject[1], last.resp)
       IN  /\ (last.resp.status \notin 200..299 \/ last.resp.body # "document")
                 => got = None
           /\ got # Some(<<>>)
           /\ last.path = "inserted" => Written.subject = got

\* C21: createKeyspace is entered once, from the system session.  Its first
\* successful attempt ends it and it is not entered again; every failed
\* attempt is counted and followed by another while fewer than 20 have
\* failed; after the 20th failure no attempt is made and the process exits,
\* with no connection dialled, no frame read and no row written.
C21_BoundedProvisioning ==
    [][ /\ (pc # "createKeyspace" /\ pc' = "createKeyspace") =>
              (pc = "systemSession" /\ attempts' = 0)
        /\ (pc = "createKeyspace" /\ pc' = "createKeyspace") =>
              (attempts < 20 /\ attempts' = attempts + 1)
        /\ (pc = "createKeyspace" /\ attempts = 20) => pc' = "exited"
        /\ (pc = "createKeyspace" /\ pc' = "exited") =>
              /\ attempts = 20
              /\ conn = "closed"
              /\ last.path = "none"
              /\ store = <<>>
        /\ (pc = "createKeyspace" /\ pc' \notin {"createKeyspace", "exited"}) =>
              (pc' = "createKeyspaceAgain" /\ attempts < 20) ]_vars

\* C21 witness: all 20 attempts have failed and the process has exited
\* without a connection.
C21_Witness ==
    pc = "exited" /\ attempts = 20 /\ conn = "closed" /\ last.path = "none"

\* commits of every actor, operation and key with a record that is accepted
\* and asks no resolver
PlainFrames == {Envelope(h, op, k, BaseRecord) : h \in Headers, op \in Operations, k \in Rkeys}

\* C22: rows are addressed by rkey alone.  On every table the loop can meet,
\* when the store carries out the statement, a create/update with rkey K from
\* any actor leaves exactly one row K, whole from that message, did column
\* included; a delete with rkey K from any actor leaves no row K, whichever
\* actor wrote it; and the rows of other keys stay as they are.
C22_AddressedByRkey ==
    pc = "read" =>
        \A f \in PlainFrames :
            LET r == Iterate(variant, store, nextId, f, NoCall, TRUE)
            IN  /\ f.operation \in {"create", "update"} =>
                      /\ Cardinality(RowsOf(r.store, f.rkey)) = 1
                      /\ \A k \in RowsOf(r.store, f.rkey) :
                            r.store[k] = [rkey |-> f.rkey, time_us |-> f.time_us,
                                          cid |-> f.cid, did |-> f.did,
                                          emotion |-> f.record.emotion,
                                          subject |-> None]
                /\ f.operation = "delete" => RowsOf(r.store, f.rkey) = {}
                /\ \A k \in DOMAIN store :
                      store[k].rkey # f.rkey =>
                          (k \in DOMAIN r.store /\ r.store[k] = store[k])

====
